---- MODULE Spec2Model ----
(***************************************************************************)
(* A model of pyo_oracle: the dataset-listing filter pipeline with its     *)
(* argument validator and its bounded memo (functools.lru_cache), and the  *)
(* download executor with its confirmation prompts and its log file.       *)
(*                                                                         *)
(* Strings are TLC strings; Len, \o and SubSeq act on them character by    *)
(* character, so prefix, substring, split and case conversion are computed *)
(* as Python computes them.                                                *)
(***************************************************************************)
EXTENDS Integers, Sequences, FiniteSets, TLC

VARIABLES
    cache,        \* _list_layers' lru_cache: entries, least recently used first
    dfCache,      \* _layer_dataframe's lru_cache(2): flags, least recently used first
    fetches,      \* number of tabledap catalog queries issued to the server
    nextObj,      \* identity of the next object the filter pipeline allocates
    ncalls,       \* number of list_layers calls made
    ret,          \* outcome of the last list_layers call
    prev,         \* outcome of the call before it (the reference the caller still holds)
    recency,      \* history: keys of the calls the memo served, last use last
    issued,       \* number of distinct queries the paging client has issued
    server,       \* the catalog table the remote server answers with
    configSkip,   \* config["skip_confirmation"], as the process loaded it
    dataFiles,    \* the data files on disk
    logs,         \* the log files on disk: file -> the lines written to it
    rootHandler,  \* the file of the root logger's handler, NoHandler before basicConfig
    resolved,     \* number of griddap sessions opened to resolve a download URL
    requests,     \* number of download requests streamed
    clock,        \* the wall clock, in seconds
    pending,      \* download_layers' loop: the dataset ids still to download
    dlArgs,       \* the arguments of the download_layers call in progress
    dlSeq,        \* number of _download_layer calls made
    lastDl,       \* outcome of the last _download_layer call
    dlRet,        \* outcome of the last download_layers call
    resCall,      \* the last call of _get_griddap_dataset_url: its session and outcome
    store,        \* the config file: absent, or the settings of its DEFAULT section
    cfgRet,       \* outcome of the last call of a function of config.py
    localRet      \* outcome of the last call of list_local_data: what it printed

listVars == <<cache, dfCache, fetches, nextObj, ncalls, ret, prev, recency, issued, server>>
dlVars == <<configSkip, dataFiles, logs, rootHandler, resolved, requests, clock, pending,
            dlArgs, dlSeq, lastDl, dlRet>>
cfgVars == <<store, cfgRet>>
extVars == <<resCall, cfgVars, localRet>>
vars == <<listVars, dlVars, extVars>>

(***************************************************************************)
(* Bounds of the model.                                                    *)
(***************************************************************************)
MaxCalls == 3
MaxLRUCalls == 10
MaxDownloads == 2
MaxClock == 1
MaxTokens == 2

(***************************************************************************)
(* Strings.                                                                *)
(***************************************************************************)
Uppers == "ABCDEFGHIJKLMNOPQRSTUVWXYZ"
Lowers == "abcdefghijklmnopqrstuvwxyz"
\* code-point order of the characters the model uses (ASCII)
Ascii == " -.0123456789ABCDEFGHIJKLMNOPQRSTUVWXYZ[]_abcdefghijklmnopqrstuvwxyz"

Char(s, i) == SubSeq(s, i, i)

IndexIn(c, alphabet) ==
    IF \E i \in 1..Len(alphabet) : Char(alphabet, i) = c
    THEN CHOOSE i \in 1..Len(alphabet) : Char(alphabet, i) = c
    ELSE 0

\* the case maps and the code-point rank, tabulated per character
LowerOf == [c \in {Char(Uppers, i) : i \in 1..Len(Uppers)} |-> Char(Lowers, IndexIn(c, Uppers))]
UpperOf == [c \in {Char(Lowers, i) : i \in 1..Len(Lowers)} |-> Char(Uppers, IndexIn(c, Lowers))]
RankOf == [c \in {Char(Ascii, i) : i \in 1..Len(Ascii)} |-> IndexIn(c, Ascii)]

LowerChar(c) == IF c \in DOMAIN LowerOf THEN LowerOf[c] ELSE c
UpperChar(c) == IF c \in DOMAIN UpperOf THEN UpperOf[c] ELSE c

RECURSIVE Lower(_)
Lower(s) == IF Len(s) = 0 THEN "" ELSE LowerChar(Char(s, 1)) \o Lower(SubSeq(s, 2, Len(s)))

RECURSIVE Upper(_)
Upper(s) == IF Len(s) = 0 THEN "" ELSE UpperChar(Char(s, 1)) \o Upper(SubSeq(s, 2, Len(s)))

\* str.capitalize(): first character upper-cased, the rest lower-cased
Capitalize(s) ==
    IF Len(s) = 0 THEN "" ELSE UpperChar(Char(s, 1)) \o Lower(SubSeq(s, 2, Len(s)))

StartsWith(s, p) == Len(p) <= Len(s) /\ SubSeq(s, 1, Len(p)) = p

EndsWith(s, p) == Len(p) <= Len(s) /\ SubSeq(s, Len(s) - Len(p) + 1, Len(s)) = p

\* substring test; the patterns of the model hold no regex metacharacter
Contains(s, p) ==
    \E i \in 1..(Len(s) - Len(p) + 1) : SubSeq(s, i, i + Len(p) - 1) = p

\* str.split(sep) for a one-character separator
RECURSIVE SplitFrom(_, _, _, _)
SplitFrom(s, sep, start, i) ==
    IF i > Len(s) THEN <<SubSeq(s, start, Len(s))>>
    ELSE IF Char(s, i) = sep
         THEN <<SubSeq(s, start, i - 1)>> \o SplitFrom(s, sep, i + 1, i + 1)
         ELSE SplitFrom(s, sep, start, i + 1)

Split(s, sep) == SplitFrom(s, sep, 1, 1)

\* Python's < on str: lexicographic by code point
RECURSIVE StrLess(_, _)
StrLess(a, b) ==
    IF Len(b) = 0 THEN FALSE
    ELSE IF Len(a) = 0 THEN TRUE
    ELSE IF Char(a, 1) = Char(b, 1) THEN StrLess(SubSeq(a, 2, Len(a)), SubSeq(b, 2, Len(b)))
    ELSE RankOf[Char(a, 1)] < RankOf[Char(b, 1)]

\* sorted(): insertion of each element into an ordered tuple
RECURSIVE InsertSorted(_, _)
InsertSorted(x, seq) ==
    IF seq = <<>> THEN <<x>>
    ELSE IF StrLess(Head(seq), x) \/ Head(seq) = x
         THEN <<Head(seq)>> \o InsertSorted(x, Tail(seq))
         ELSE <<x>> \o seq

RECURSIVE Sorted(_)
Sorted(seq) == IF seq = <<>> THEN <<>> ELSE InsertSorted(Head(seq), Sorted(Tail(seq)))

RECURSIVE SetToSeq(_)
SetToSeq(S) ==
    IF S = {} THEN <<>> ELSE LET x == CHOOSE y \in S : TRUE IN <<x>> \o SetToSeq(S \ {x})

Range(seq) == {seq[i] : i \in 1..Len(seq)}

(***************************************************************************)
(* Python argument values: None, a str, a list, a tuple, a set.           *)
(***************************************************************************)
None == [kind |-> "none"]
Str(s) == [kind |-> "str", s |-> s]
List(seq) == [kind |-> "list", elems |-> seq]
Tuple(seq) == [kind |-> "tuple", elems |-> seq]
SetOf(S) == [kind |-> "set", items |-> S]

\* the elements an iterable argument holds
Elements(v) ==
    IF v.kind = "str" THEN {v.s}
    ELSE IF v.kind = "set" THEN v.items
    ELSE IF v.kind \in {"list", "tuple"} THEN Range(v.elems)
    ELSE {}

(***************************************************************************)
(* The enumerated vocabularies (typing.Literal / get_args).                *)
(***************************************************************************)
_Variable == {"chl", "clt", "dfe", "mlotst", "no3", "o2", "ph", "phyc", "po4", "si",
              "siconc", "sithick", "so", "swd", "sws", "tas", "terrain", "thetao"}
_SSP == {"ssp119", "ssp126", "ssp245", "ssp370", "ssp460", "ssp585", "baseline"}
_TimePeriod == {"present", "future"}
_Depth == {"min", "mean", "max", "surf"}

names == <<"variables", "ssp", "time_period", "depth">>

_valid_args(name) ==
    CASE name = "variables" -> _Variable
      [] name = "ssp" -> _SSP
      [] name = "time_period" -> _TimePeriod
      [] name = "depth" -> _Depth

(***************************************************************************)
(* The catalog tables of the remote server (tabledap "allDatasets").       *)
(* The first row is the server's own metadata row.                         *)
(***************************************************************************)
Columns == <<"datasetID", "title", "summary">>

Row(i, id, title) ==
    [index |-> i,
     cells |-> [c \in Range(Columns) |->
                  IF c = "datasetID" THEN id ELSE IF c = "title" THEN title ELSE "Bio-Oracle layer"]]

CatalogA ==
    [cols |-> Columns,
     rows |-> << Row(0, "allDatasets", "The List of All Active Datasets"),
                 Row(1, "chl_baseline_2000_2018_depthsurf", "Chlorophyll [depthSurf] Baseline 2000-2018"),
                 Row(2, "po4_baseline_2000_2018_depthmean", "Phosphate [depthMean] Baseline 2000-2018"),
                 Row(3, "po4_ssp119_2020_2100_depthmean", "Phosphate [depthMean] SSP119 2020-2100"),
                 Row(4, "po4_ssp126_2020_2100_depthsurf", "Phosphate [depthSurf] SSP126 2020-2100"),
                 Row(5, "si_ssp119_2020_2100_depthmax", "Silicate [depthMax] SSP119 2020-2100"),
                 Row(6, "siconc_baseline_2000_2020_depthsurf", "Sea Ice Concentration Baseline 2000-2020"),
                 Row(7, "thetao_ssp585_2020_2100_depthmin", "Ocean Temperature [depthMin] SSP585 2020-2100"),
                 Row(8, "terrain_characteristics", "Terrain Characteristics") >>]

\* a second catalog: upper-case and capitalised tokens, overlapping prefixes
CatalogB ==
    [cols |-> Columns,
     rows |-> << Row(0, "allDatasets", "The List of All Active Datasets"),
                 Row(1, "ph_baseline_2000_2018_depthmean", "pH [depthMean] Baseline 2000-2018"),
                 Row(2, "phyc_ssp119_2020_2100_depthsurf", "Phytoplankton [depthSurf] SSP119 2020-2100"),
                 Row(3, "tas_SSP585_2020_2100_depthSurf", "Air Temperature [depthSurf] SSP585 2020-2100"),
                 Row(4, "o2_Ssp126_2020_2100_depthMEAN", "Oxygen [depthMean] SSP126 2020-2100"),
                 Row(5, "terrain_characteristics", "Terrain Characteristics") >>]

Catalogs == {CatalogA, CatalogB}

IDs(frame) == [i \in 1..Len(frame.rows) |-> frame.rows[i].cells["datasetID"]]

\* the catalogs' cell texts lower-cased and their identifiers split, tabulated once
CellTexts ==
    UNION { { t.rows[i].cells[c] : i \in 1..Len(t.rows), c \in Range(t.cols) } : t \in Catalogs }

LowerCell == [s \in CellTexts |-> Lower(s)]

SplitID == [s \in UNION { Range(IDs(t)) : t \in Catalogs } |-> Split(s, "_")]

(***************************************************************************)
(* utils._validate_argument.  The name Iterable is not bound in utils.py   *)
(* (typing imports Dict, List, Optional, Union only), so the isinstance    *)
(* test of line 85 raises NameError for every value that is neither None   *)
(* nor a str.                                                              *)
(***************************************************************************)
NoDiags == <<>>

Diag(name, value) == [name |-> name, value |-> value, valid_values |-> _valid_args(name)]

_validate_argument(name, value) ==
    IF value.kind = "none" THEN [raised |-> FALSE, diags |-> NoDiags]
    ELSE IF value.kind = "str"
         THEN [raised |-> FALSE,
               diags |-> IF Lower(value.s) \notin _valid_args(name)
                         THEN <<Diag(name, value.s)>> ELSE NoDiags]
         ELSE [raised |-> TRUE, diags |-> NoDiags]

\* the validation loop of list_layers: stops at the first call that raises
RECURSIVE ValidateFrom(_, _)
ValidateFrom(q, i) ==
    IF i > Len(names) THEN [raised |-> FALSE, diags |-> NoDiags]
    ELSE LET one == _validate_argument(names[i], q[names[i]])
         IN IF one.raised THEN one
            ELSE LET rest == ValidateFrom(q, i + 1)
                 IN [raised |-> rest.raised, diags |-> one.diags \o rest.diags]

(***************************************************************************)
(* utils._ensure_hashable: None stays None, a str becomes a 1-tuple, any   *)
(* other iterable becomes a tuple whose order does not depend on the       *)
(* container: the sorted tuple of its elements.                           *)
(***************************************************************************)
_ensure_hashable(v) ==
    IF v.kind = "none" THEN None
    ELSE IF v.kind = "str" THEN Tuple(<<v.s>>)
    ELSE IF v.kind = "set" THEN Tuple(Sorted(SetToSeq(v.items)))
    ELSE Tuple(Sorted(v.elems))

\* the arguments list_layers hands to _list_layers: the memo's key
Key(q) ==
    [search |-> _ensure_hashable(q.search),
     variables |-> _ensure_hashable(q.variables),
     ssp |-> _ensure_hashable(q.ssp),
     time_period |-> _ensure_hashable(q.time_period),
     depth |-> _ensure_hashable(q.depth),
     dataframe |-> q.dataframe,
     simplify |-> q.simplify,
     _include_allDatasets |-> q._include_allDatasets]

\* truth value of None or a tuple
Truthy(v) == v.kind = "tuple" /\ Len(v.elems) > 0

(***************************************************************************)
(* utils._layer_dataframe: the catalog, without its first row unless       *)
(* include_allDatasets.                                                    *)
(***************************************************************************)
_layer_dataframe(include_allDatasets, table) ==
    IF include_allDatasets THEN table ELSE [table EXCEPT !.rows = Tail(table.rows)]

(***************************************************************************)
(* main._list_layers: the filter pipeline.                                 *)
(***************************************************************************)
RECURSIVE Flatten(_)
Flatten(seqs) == IF seqs = <<>> THEN <<>> ELSE Head(seqs) \o Flatten(Tail(seqs))

ID(row) == row.cells["datasetID"]

\* lines 243-257: rows where any searchable column holds any term, ignoring case
SearchMatch(row, searchable, terms) ==
    \E c \in searchable : \E t \in Range(terms) : Contains(LowerCell[row.cells[c]], Lower(t))

SearchStep(frame, search) ==
    IF ~Truthy(search) THEN frame
    ELSE LET present == {"datasetID", "title", "long_name", "standard_name"} \cap Range(frame.cols)
             searchable == IF present = {} THEN {"datasetID"} ELSE present
         IN [frame EXCEPT !.rows =
                SelectSeq(frame.rows, LAMBDA r : SearchMatch(r, searchable, search.elems))]

\* lines 260-266: per token the rows whose datasetID starts with it, concatenated
VariableMatch(row, v) == StartsWith(ID(row), Lower(v))

\* mutant: a row matched by several tokens is kept once
VariablesStep_Deduplicated(frame, variables) ==
    IF ~Truthy(variables) THEN frame
    ELSE [frame EXCEPT !.rows =
            SelectSeq(frame.rows, LAMBDA r :
                \E i \in 1..Len(variables.elems) : VariableMatch(r, variables.elems[i]))]

VariablesStep(frame, variables) ==
    IF ~Truthy(variables) THEN frame
    ELSE [frame EXCEPT !.rows =
            Flatten([i \in 1..Len(variables.elems) |->
                       SelectSeq(frame.rows, LAMBDA r : VariableMatch(r, variables.elems[i]))])]

\* line 268: str.split("_", expand=True)[2]; None where a row has no third segment
StartDecade(row) ==
    LET segs == SplitID[ID(row)] IN IF Len(segs) >= 3 THEN segs[3] ELSE "None"

\* the expanded split has as many columns as the longest row has segments
SplitColumns(frame) ==
    IF frame.rows = <<>> THEN 0
    ELSE LET n(i) == Len(SplitID[ID(frame.rows[i])])
         IN CHOOSE m \in {n(i) : i \in 1..Len(frame.rows)} :
                \A i \in 1..Len(frame.rows) : n(i) <= m

\* mutant: "future" keeps the rows of both decades
TimePeriodStep_FutureKeepsPresent(frame, time_period) ==
    IF ~Truthy(time_period) THEN [raised |-> FALSE, frame |-> frame]
    ELSE IF SplitColumns(frame) < 3 THEN [raised |-> TRUE, frame |-> frame]
    ELSE IF time_period = Tuple(<<"present">>)
         THEN [raised |-> FALSE,
               frame |-> [frame EXCEPT !.rows =
                            SelectSeq(frame.rows, LAMBDA r : StartDecade(r) = "2000")]]
    ELSE IF time_period = Tuple(<<"future">>)
         THEN [raised |-> FALSE,
               frame |-> [frame EXCEPT !.rows =
                            SelectSeq(frame.rows, LAMBDA r : StartDecade(r) \in {"2000", "2020"})]]
    ELSE [raised |-> FALSE, frame |-> frame]

\* lines 267-272: column 2 is looked up first (KeyError when absent), then compared
TimePeriodStep(frame, time_period) ==
    IF ~Truthy(time_period) THEN [raised |-> FALSE, frame |-> frame]
    ELSE IF SplitColumns(frame) < 3 THEN [raised |-> TRUE, frame |-> frame]
    ELSE IF time_period = Tuple(<<"present">>)
         THEN [raised |-> FALSE,
               frame |-> [frame EXCEPT !.rows =
                            SelectSeq(frame.rows, LAMBDA r : StartDecade(r) = "2000")]]
    ELSE IF time_period = Tuple(<<"future">>)
         THEN [raised |-> FALSE,
               frame |-> [frame EXCEPT !.rows =
                            SelectSeq(frame.rows, LAMBDA r : StartDecade(r) = "2020")]]
    ELSE [raised |-> FALSE, frame |-> frame]

\* lines 273-283
SspMatch(row, v) ==
    \/ Contains(ID(row), Lower(v))
    \/ Contains(ID(row), Capitalize(v))
    \/ Contains(ID(row), Upper(v))

SspStep(frame, ssp) ==
    IF ~Truthy(ssp) THEN frame
    ELSE [frame EXCEPT !.rows =
            Flatten([i \in 1..Len(ssp.elems) |->
                       SelectSeq(frame.rows, LAMBDA r : SspMatch(r, ssp.elems[i]))])]

\* lines 284-294
DepthMatch(row, v) ==
    \/ Contains(ID(row), "depth" \o Lower(v))
    \/ Contains(ID(row), "depth" \o Capitalize(v))
    \/ Contains(ID(row), "depth" \o Upper(v))

DepthStep(frame, depth) ==
    IF ~Truthy(depth) THEN frame
    ELSE [frame EXCEPT !.rows =
            Flatten([i \in 1..Len(depth.elems) |->
                       SelectSeq(frame.rows, LAMBDA r : DepthMatch(r, depth.elems[i]))])]

\* lines 296-303: a table with a fresh 0..n-1 index, or the datasetID column as a list
Shape(frame, dataframe, simplify) ==
    IF dataframe
    THEN LET cols == IF simplify THEN <<"datasetID", "title">> ELSE frame.cols
         IN [kind |-> "table",
             cols |-> cols,
             rows |-> [i \in 1..Len(frame.rows) |->
                         [index |-> i - 1,
                          cells |-> [c \in Range(cols) |-> frame.rows[i].cells[c]]]]]
    ELSE [kind |-> "list", ids |-> IDs(frame)]

NoValue == [kind |-> "none"]

\* mutant: the time-period step returns at once, ssp and depth are skipped
Pipeline_EarlyReturn(key, table) ==
    LET f0 == _layer_dataframe(key._include_allDatasets, table)
        f1 == SearchStep(f0, key.search)
        f2 == VariablesStep(f1, key.variables)
        t3 == TimePeriodStep(f2, key.time_period)
        f4 == SspStep(t3.frame, key.ssp)
        f5 == DepthStep(f4, key.depth)
    IN IF t3.raised THEN [raised |-> TRUE, val |-> NoValue]
       ELSE IF key.time_period \in {Tuple(<<"present">>), Tuple(<<"future">>)}
            THEN [raised |-> FALSE, val |-> Shape(t3.frame, key.dataframe, key.simplify)]
            ELSE [raised |-> FALSE, val |-> Shape(f5, key.dataframe, key.simplify)]

\* the body of _list_layers on the arguments `key` and the fetched catalog
Pipeline(key, table) ==
    LET f0 == _layer_dataframe(key._include_allDatasets, table)
        f1 == SearchStep(f0, key.search)
        f2 == VariablesStep(f1, key.variables)
        t3 == TimePeriodStep(f2, key.time_period)
        f4 == SspStep(t3.frame, key.ssp)
        f5 == DepthStep(f4, key.depth)
    IN IF t3.raised THEN [raised |-> TRUE, val |-> NoValue]
       ELSE [raised |-> FALSE, val |-> Shape(f5, key.dataframe, key.simplify)]

(***************************************************************************)
(* functools.lru_cache: a bounded memo, least recently used entry first.   *)
(***************************************************************************)
ListLayersMaxsize == 8
LayerDataframeMaxsize == 2

\* mutant: the memo never finds a key
Lookup_NeverHits(c, key) == 0

Lookup(c, key) ==
    IF \E i \in 1..Len(c) : c[i].key = key
    THEN CHOOSE i \in 1..Len(c) : c[i].key = key
    ELSE 0

Without(c, i) == SubSeq(c, 1, i - 1) \o SubSeq(c, i + 1, Len(c))

\* mutant: a hit leaves the order alone (first in, first out)
Touch_NoMove(c, i) == c

\* a hit moves the entry to the most recently used end
Touch(c, i) == Append(Without(c, i), c[i])

\* a miss on a full memo drops the least recently used entry
Insert(c, entry, maxsize) ==
    IF Len(c) >= maxsize THEN Append(Tail(c), entry) ELSE Append(c, entry)

\* mutant: a memo of one slot, which holds the flag of the last call only
DfCacheAfter_SingleSlot(c, flag) == <<flag>>

\* the memo of _layer_dataframe after a call with `flag`
DfCacheAfter(c, flag) ==
    LET entries == [i \in 1..Len(c) |-> [key |-> c[i]]]
        i == Lookup(entries, flag)
    IN IF i > 0 THEN Append(Without(c, i), flag)
       ELSE IF Len(c) >= LayerDataframeMaxsize THEN Append(Tail(c), flag) ELSE Append(c, flag)

\* the history of uses, each key kept at its last use
Used(h, key) == Append(SelectSeq(h, LAMBDA k : k # key), key)

(***************************************************************************)
(* main.list_layers, one whole call: validation, key, memo, pipeline.      *)
(***************************************************************************)
NoKey == [kind |-> "none"]

NoCall == [status |-> "none"]

Raised(q, exc, diags, ran) ==
    [status |-> "raised", exc |-> exc, obj |-> 0, val |-> NoValue, diags |-> diags,
     hit |-> FALSE, ran |-> ran, key |-> NoKey, args |-> q]

Returned(q, key, obj, val, diags, hit) ==
    [status |-> "returned", exc |-> "", obj |-> obj, val |-> val, diags |-> diags,
     hit |-> hit, ran |-> ~hit, key |-> key, args |-> q]

list_layers(q) ==
    LET v == ValidateFrom(q, 1)
        key == Key(q)
        i == Lookup(cache, key)
        r == Pipeline(key, server)
    IN /\ ncalls' = ncalls + 1
       /\ prev' = ret
       /\ UNCHANGED server
       /\ IF v.raised
          THEN /\ ret' = Raised(q, "NameError", v.diags, FALSE)
               /\ UNCHANGED <<cache, dfCache, fetches, nextObj, recency>>
          ELSE IF i > 0
          THEN /\ cache' = Touch(cache, i)
               /\ ret' = Returned(q, key, cache[i].obj, cache[i].val, v.diags, TRUE)
               /\ recency' = Used(recency, key)
               /\ UNCHANGED <<dfCache, fetches, nextObj>>
          ELSE /\ dfCache' = DfCacheAfter(dfCache, key._include_allDatasets)
               /\ fetches' = IF key._include_allDatasets \in Range(dfCache)
                             THEN fetches ELSE fetches + 1
               /\ IF r.raised
                  THEN /\ ret' = Raised(q, "KeyError", v.diags, TRUE)
                       /\ UNCHANGED <<cache, nextObj, recency>>
                  ELSE /\ cache' = Insert(cache, [key |-> key, obj |-> nextObj, val |-> r.val],
                                          ListLayersMaxsize)
                       /\ nextObj' = nextObj + 1
                       /\ ret' = Returned(q, key, nextObj, r.val, v.diags, FALSE)
                       /\ recency' = Used(recency, key)

\* main._list_layers called with its own (tuple) arguments: memo, then pipeline
_list_layers(key) ==
    LET i == Lookup(cache, key)
        r == Pipeline(key, server)
    IN /\ ncalls' = ncalls + 1
       /\ prev' = ret
       /\ UNCHANGED server
       /\ IF i > 0
          THEN /\ cache' = Touch(cache, i)
               /\ ret' = Returned(key, key, cache[i].obj, cache[i].val, NoDiags, TRUE)
               /\ recency' = Used(recency, key)
               /\ UNCHANGED <<dfCache, fetches, nextObj>>
          ELSE /\ dfCache' = DfCacheAfter(dfCache, key._include_allDatasets)
               /\ fetches' = IF key._include_allDatasets \in Range(dfCache)
                             THEN fetches ELSE fetches + 1
               /\ IF r.raised
                  THEN /\ ret' = Raised(key, "KeyError", NoDiags, TRUE)
                       /\ UNCHANGED <<cache, nextObj, recency>>
                  ELSE /\ cache' = Insert(cache, [key |-> key, obj |-> nextObj, val |-> r.val],
                                          ListLayersMaxsize)
                       /\ nextObj' = nextObj + 1
                       /\ ret' = Returned(key, key, nextObj, r.val, NoDiags, FALSE)
                       /\ recency' = Used(recency, key)

(***************************************************************************)
(* The calls a client makes.                                               *)
(***************************************************************************)
Query(search, variables, ssp, time_period, depth, dataframe, simplify, meta) ==
    [search |-> search, variables |-> variables, ssp |-> ssp, time_period |-> time_period,
     depth |-> depth, dataframe |-> dataframe, simplify |-> simplify,
     _include_allDatasets |-> meta]

Default == Query(None, None, None, None, None, TRUE, FALSE, FALSE)

\* the calls of a session: sequences of them are explored
SessionQueries ==
    { Default,
      [Default EXCEPT !.variables = List(<<"po4", "chl">>), !.ssp = List(<<"ssp119", "ssp126">>)],
      [Default EXCEPT !.variables = SetOf({"chl", "po4"}), !.ssp = Tuple(<<"ssp126", "ssp119">>)],
      [Default EXCEPT !.search = List(<<"temperature", "po4">>)],
      [Default EXCEPT !.search = Tuple(<<"po4", "temperature">>)],
      [Default EXCEPT !.search = SetOf({"po4", "temperature"})],
      [Default EXCEPT !.variables = Str("po4")],
      [Default EXCEPT !.variables = Str("po4"), !.dataframe = FALSE],
      [Default EXCEPT !.variables = Str("notavariable")],
      [Default EXCEPT !.variables = Str("notavariable"), !.time_period = Str("present")],
      [Default EXCEPT !.variables = List(<<"notavariable">>)],
      [Default EXCEPT !.ssp = Str("ssp119"), !.time_period = Str("future")],
      [Default EXCEPT !.depth = Str("deep")],
      [Default EXCEPT !.time_period = Str("past"), !._include_allDatasets = TRUE] }

\* the arguments of a single call: every combination is explored
SearchArgs == {None, Str("temperature"), List(<<"po4", "temperature">>), SetOf({"Silicate", "chl"})}
VariableArgs == {None, Str("po4"), Str("si"), Str("PO4"), Str("notavariable"),
                 List(<<"po4", "chl">>)}
SspArgs == {None, Str("ssp119"), Str("ssp126"), Str("ssp585"), Str("ssp999"),
            Tuple(<<"ssp126", "ssp119">>)}
TimePeriodArgs == {None, Str("present"), Str("future"), Str("past")}
DepthArgs == {None, Str("surf"), Str("mean"), Str("deep"), List(<<"mean", "surf">>)}

Queries ==
    { Query(s, v, p, t, d, df, si, m) :
        s \in SearchArgs, v \in VariableArgs, p \in SspArgs, t \in TimePeriodArgs,
        d \in DepthArgs, df \in BOOLEAN, si \in BOOLEAN, m \in BOOLEAN }

\* the queries of a paging client: ten distinct keys, none of which raises
LRUQueries ==
    << Default,
       [Default EXCEPT !.dataframe = FALSE, !._include_allDatasets = TRUE],
       [Default EXCEPT !.simplify = TRUE],
       [Default EXCEPT !.time_period = Str("present")],
       [Default EXCEPT !.time_period = Str("present"), !.dataframe = FALSE],
       [Default EXCEPT !.time_period = Str("present"), !.simplify = TRUE],
       [Default EXCEPT !.time_period = Str("future")],
       [Default EXCEPT !.time_period = Str("future"), !.dataframe = FALSE],
       [Default EXCEPT !.time_period = Str("future"), !.simplify = TRUE],
       [Default EXCEPT !.variables = Str("po4")] >>

(***************************************************************************)
(* utils.confirm: the prompt proceeds on "y" or "yes", in any case.        *)
(***************************************************************************)
\* mutant: a substring test, which the empty answer passes
confirm_Substring(response) == Contains("y yes", Lower(response))

confirm(response) == Lower(response) \in {"y", "yes"}

\* what a user may type at a prompt
Answers == {"y", "YES", "n", ""}

\* no prompt was shown
NoAnswer == "-"

(***************************************************************************)
(* Files.  A file is a directory and a name.                               *)
(***************************************************************************)
File(dir, name) == [dir |-> dir, name |-> name]

ConfigDataDirectory == "data"

\* the position of the last "." of a name, 0 when it has none
LastDot(name) ==
    IF \E i \in 1..Len(name) : Char(name, i) = "."
    THEN CHOOSE i \in 1..Len(name) :
            Char(name, i) = "." /\ \A j \in (i + 1)..Len(name) : Char(name, j) # "."
    ELSE 0

\* pathlib's with_suffix: the last suffix replaced, or the suffix appended
WithSuffix(name, suffix) ==
    IF LastDot(name) > 1 THEN SubSeq(name, 1, LastDot(name) - 1) \o suffix
    ELSE name \o suffix

\* datetime.now().strftime("%Y-%m-%d-%H%M%S"), the clock counted in seconds
Timestamp(t) == "2026-11-03-12000" \o ToString(t)

\* lines 244-249 of utils.py: line 244 rebinds the parameter timestamp to the
\* formatted time, and the test of line 247 is made on that str
Filename(dataset_id, timestamp, t, response) ==
    LET rebound == Timestamp(t)
    IN IF rebound # "" THEN dataset_id \o "_" \o rebound \o "." \o response
       ELSE dataset_id \o "." \o response

Outdir(output_directory) ==
    IF output_directory = "None" THEN ConfigDataDirectory ELSE output_directory

\* lines 261-265: the entries of outdir that start with the id and are no log
ExistingLayers(outdir, dataset_id, data, logfiles) ==
    { f \in data \cup logfiles :
        f.dir = outdir /\ StartsWith(f.name, dataset_id) /\ ~EndsWith(f.name, ".log") }

\* logging.basicConfig(filename=...): installs a FileHandler, which opens the
\* file for appending, only while the root logger has no handler
NoHandler == File("", "")

BasicConfig(root, logfile) == IF root = NoHandler THEN logfile ELSE root

Opened(lg, file) ==
    [f \in DOMAIN lg \cup {file} |-> IF f \in DOMAIN lg THEN lg[f] ELSE <<>>]

\* logging.info through info_logger: a line in the root handler's file when log
Line(n, msg) == [by |-> n, msg |-> msg]

Logged(lg, root, log, lines) ==
    IF log THEN [lg EXCEPT ![root] = @ \o lines] ELSE lg

NoDownload == [outcome |-> "none", answer |-> NoAnswer]

(***************************************************************************)
(* main.download_layers up to its loop: the ids as a tuple, the            *)
(* confirmation policy, the no-constraints prompt.                         *)
(***************************************************************************)
\* the calls a client makes: any ids, policy, constraints and log into the data
\* directory of the configuration, and a download into a directory of its own
DownloadArgs ==
    [ids : {<<"po4_baseline_2000_2018_depthmean">>,
            <<"Chl_baseline_2000_2018_depthsurf", "po4_baseline_2000_2018_depthmean">>},
     output_directory : {"None"},
     response : {"nc"},
     constraints : BOOLEAN,
     skip_confirmation : {"None", "True", "False"},
     log : BOOLEAN,
     timestamp : {TRUE}]
    \cup
    [ids : {<<"po4_baseline_2000_2018_depthmean">>},
     output_directory : {"out"},
     response : {"nc"},
     constraints : {TRUE},
     skip_confirmation : {"True", "False"},
     log : {TRUE},
     timestamp : BOOLEAN]

\* the setting skip_confirmation of the configuration read at import; the
\* configuration the package creates has no such setting
ConfigSkips == {"absent", "True", "False"}

\* config["skip_confirmation"] raises KeyError when the setting is absent
NoSetting(arg) == arg = "None" /\ configSkip = "absent"

\* eval(config["skip_confirmation"]) when the argument is None
SkipConfirmation(arg) == IF arg = "None" THEN configSkip = "True" ELSE arg = "True"

\* lines 115-118 of main.py: ids that are not lower-case are lower-cased
Lowercased(ids) == [i \in 1..Len(ids) |-> Lower(ids[i])]

\* lines 109-113 of main.py: the prompt is shown
Prompts(a) ==
    ~NoSetting(a.skip_confirmation) /\ ~SkipConfirmation(a.skip_confirmation) /\ ~a.constraints

\* the arguments of no call
NoArgs == CHOOSE a \in DownloadArgs : TRUE

download_layers(a, answer) ==
    /\ pending = <<>>
    /\ IF NoSetting(a.skip_confirmation)
       THEN /\ dlRet' = [outcome |-> "raised", answer |-> answer]
            /\ UNCHANGED <<pending, dlArgs>>
       ELSE IF Prompts(a) /\ ~confirm(answer)
       THEN /\ dlRet' = [outcome |-> "declined", answer |-> answer]
            /\ UNCHANGED <<pending, dlArgs>>
       ELSE /\ dlSeq + Len(a.ids) <= MaxDownloads
            /\ pending' = Lowercased(a.ids)
            /\ dlArgs' = a
            /\ dlRet' = [outcome |-> "running", answer |-> answer]
    /\ UNCHANGED <<configSkip, dataFiles, logs, rootHandler, resolved, requests, clock,
                   dlSeq, lastDl>>

(***************************************************************************)
(* utils._download_layer, one whole call, for the next id of the loop.     *)
(***************************************************************************)
\* lines 258-266 of utils.py: the prompt is shown
ExistingPrompts(dataset_id) ==
    /\ ~SkipConfirmation(dlArgs.skip_confirmation)
    /\ ExistingLayers(Outdir(dlArgs.output_directory), dataset_id, dataFiles, DOMAIN logs) # {}

\* mutant: a declined existing-files prompt cancels the ids that follow too
_download_layer_DeclineEndsLoop(answer) ==
    LET dataset_id == Head(pending)
        n == dlSeq + 1
        outdir == Outdir(dlArgs.output_directory)
        local_path == File(outdir, Filename(dataset_id, dlArgs.timestamp, clock,
                                            dlArgs.response))
        logfile == File(outdir, WithSuffix(local_path.name, ".log"))
        root == BasicConfig(rootHandler, logfile)
        opened == IF rootHandler = NoHandler THEN Opened(logs, logfile) ELSE logs
        started == Logged(opened, root, dlArgs.log,
                          <<Line(n, "Downloading dataset"), Line(n, "Constraints are:"),
                            Line(n, "constraints")>>)
        finished == Logged(started, root, dlArgs.log, <<Line(n, "Download finished")>>)
        call(outcome) ==
            [outcome |-> outcome, n |-> n, local_path |-> local_path, logfile |-> logfile,
             skip |-> SkipConfirmation(dlArgs.skip_confirmation), answer |-> answer,
             log |-> dlArgs.log, dataset_id |-> dataset_id, response |-> dlArgs.response,
             timestamp |-> dlArgs.timestamp, output_directory |-> dlArgs.output_directory,
             at |-> clock]
        rest == IF ExistingPrompts(dataset_id) /\ ~confirm(answer) THEN <<>> ELSE Tail(pending)
    IN /\ pending # <<>>
       /\ dlSeq' = n
       /\ UNCHANGED <<configSkip, clock>>
       /\ pending' = rest
       /\ dlArgs' = IF rest = <<>> THEN NoArgs ELSE dlArgs
       /\ dlRet' = IF rest = <<>> THEN [dlRet EXCEPT !.outcome = "returned"] ELSE dlRet
       /\ IF ExistingPrompts(dataset_id) /\ ~confirm(answer)
          THEN \* the decline ends the loop of download_layers as well
               /\ lastDl' = call("declined")
               /\ UNCHANGED <<dataFiles, logs, rootHandler, resolved, requests>>
          ELSE /\ lastDl' = call("done")
               /\ rootHandler' = root
               /\ resolved' = resolved + 1
               /\ dataFiles' = dataFiles \cup {local_path}
               /\ requests' = requests + 1
               /\ logs' = finished

_download_layer(answer) ==
    LET dataset_id == Head(pending)
        n == dlSeq + 1
        outdir == Outdir(dlArgs.output_directory)
        local_path == File(outdir, Filename(dataset_id, dlArgs.timestamp, clock,
                                            dlArgs.response))
        logfile == File(outdir, WithSuffix(local_path.name, ".log"))
        root == BasicConfig(rootHandler, logfile)
        opened == IF rootHandler = NoHandler THEN Opened(logs, logfile) ELSE logs
        started == Logged(opened, root, dlArgs.log,
                          <<Line(n, "Downloading dataset"), Line(n, "Constraints are:"),
                            Line(n, "constraints")>>)
        finished == Logged(started, root, dlArgs.log, <<Line(n, "Download finished")>>)
        call(outcome) ==
            [outcome |-> outcome, n |-> n, local_path |-> local_path, logfile |-> logfile,
             skip |-> SkipConfirmation(dlArgs.skip_confirmation), answer |-> answer,
             log |-> dlArgs.log, dataset_id |-> dataset_id, response |-> dlArgs.response,
             timestamp |-> dlArgs.timestamp, output_directory |-> dlArgs.output_directory,
             at |-> clock]
        rest == Tail(pending)
    IN /\ pending # <<>>
       /\ dlSeq' = n
       /\ UNCHANGED <<configSkip, clock>>
       /\ pending' = rest
       /\ dlArgs' = IF rest = <<>> THEN NoArgs ELSE dlArgs
       /\ dlRet' = IF rest = <<>> THEN [dlRet EXCEPT !.outcome = "returned"] ELSE dlRet
       /\ IF ExistingPrompts(dataset_id) /\ ~confirm(answer)
          THEN \* lines 279-281: return, and the loop of download_layers goes on
               /\ lastDl' = call("declined")
               /\ UNCHANGED <<dataFiles, logs, rootHandler, resolved, requests>>
          ELSE /\ lastDl' = call("done")
               /\ rootHandler' = root
               /\ resolved' = resolved + 1
               /\ dataFiles' = dataFiles \cup {local_path}
               /\ requests' = requests + 1
               /\ logs' = finished

(***************************************************************************)
(* utils._get_griddap_dataset_url: the constraints of the caller merged    *)
(* into those of a fresh griddap session.                                  *)
(***************************************************************************)
Dict(f) == [kind |-> "dict", items |-> f]

ConstraintKeys == {"time>=", "time<=", "latitude>=", "depth>="}

\* server.constraints after griddap_initialize: the defaults the server gives for
\* the dimensions of the dataset
Sessions ==
    { [k \in K |-> "default"] :
        K \in {{"time>=", "time<="}, {"time>=", "time<=", "latitude>="},
               {"time>=", "time<=", "latitude>=", "depth>="}} }

\* the constraints a caller passes: None, or a dict over some keys
CallerConstraints ==
    {None} \cup { Dict(f) : f \in UNION { [K -> {"2000", "2010"}] : K \in SUBSET ConstraintKeys } }

\* line 176: if constraints
HasConstraints(constraints) == constraints.kind = "dict" /\ DOMAIN constraints.items # {}

\* line 177: {**server._constraints_original, **constraints}
Merged(original, constraints) ==
    [k \in DOMAIN original \cup DOMAIN constraints |->
        IF k \in DOMAIN constraints THEN constraints[k] ELSE original[k]]

\* mutant: every key of the merge is written, known to the session or not
Applied_AddsUnknown(target, merged) == merged

\* lines 178-181: the keys of the merge that the session has are written
Applied(target, merged) ==
    [k \in DOMAIN target |-> IF k \in DOMAIN merged THEN merged[k] ELSE target[k]]

NoResolve == [kind |-> "none"]

_get_griddap_dataset_url(session, constraints) ==
    LET merged == Merged(session, constraints.items)
    IN [kind |-> "call", session |-> session, given |-> constraints, raised |-> FALSE,
        constraints |-> IF HasConstraints(constraints) THEN Applied(session, merged)
                        ELSE session,
        _constraints_original |-> IF HasConstraints(constraints) THEN Applied(session, merged)
                                  ELSE session]

(***************************************************************************)
(* config.py: the config file and the functions that read and write it.    *)
(***************************************************************************)
\* lines 9-12: the defaults of the module
_default_config ==
    [k \in {"data_directory", "erddap_server"} |->
        IF k = "data_directory" THEN ConfigDataDirectory
        ELSE "http://erddap.bio-oracle.org:8080/erddap/"]

\* line 14: the path of the config file
config_file == "config.ini"

NoFile == [kind |-> "nofile"]
Stored(items) == [kind |-> "file", items |-> items]
Exists(st) == st.kind = "file"

\* ConfigParser's optionxform: the names of the settings are kept in lower case
Options(d) ==
    [k \in {Lower(x) : x \in DOMAIN d} |-> d[CHOOSE x \in DOMAIN d : Lower(x) = k]]

\* config["DEFAULT"][key] = value
WithOption(items, key, value) ==
    [k \in DOMAIN items \cup {Lower(key)} |-> IF k = Lower(key) THEN value ELSE items[k]]

\* the settings a process that loaded the package holds in config: the data
\* directory, the server, and skip_confirmation when the file had it
Loaded(skip) ==
    IF skip = "absent" THEN _default_config
    ELSE WithOption(_default_config, "skip_confirmation", skip)

\* lines 27-28: the answer that cancels create_config
Cancels(response) == ~Contains("y yes", Lower(response)) \/ response = ""

NoConfigCall == [op |-> "none"]

\* what a user may type at the prompt of create_config
ConfigAnswers == {"y", "YES", "n", "", "es"}

create_config(default_config, defaulted, answer) ==
    IF Exists(store) /\ Cancels(answer)
    THEN /\ cfgRet' = [op |-> "create_config", outcome |-> "cancelled", answer |-> answer,
                       defaulted |-> defaulted, before |-> store]
         /\ UNCHANGED store
    ELSE /\ cfgRet' = [op |-> "create_config", outcome |-> "created", answer |-> answer,
                       defaulted |-> defaulted, before |-> store]
         /\ store' = Stored(Options(default_config))

\* _get_default_config: the file read, after create_config() when it is missing
AfterLoad(st) == IF Exists(st) THEN st ELSE Stored(Options(_default_config))

\* lines 54-63: the recursive call of line 63 is not returned
get_config_path ==
    /\ cfgRet' = [op |-> "get_config_path", before |-> store,
                  value |-> IF Exists(store) THEN config_file ELSE "None"]
    /\ store' = AfterLoad(store)

\* lines 66-79
print_config_values ==
    /\ cfgRet' = [op |-> "print_config_values", before |-> store,
                  printed |-> AfterLoad(store).items]
    /\ store' = AfterLoad(store)

\* mutant: only the defaults and the new setting are written
Rewritten_DefaultsOnly(st, key, value) == Stored(WithOption(Options(_default_config), key, value))

\* lines 86-89: the settings read, the one setting changed, all of them written
Rewritten(st, key, value) == Stored(WithOption(AfterLoad(st).items, key, value))

update_setting(key, value) ==
    /\ cfgRet' = [op |-> "update_setting", before |-> store, key |-> key, value |-> value]
    /\ store' = Rewritten(store, key, value)

(***************************************************************************)
(* main.list_local_data: the entries of the data directory, printed.       *)
(***************************************************************************)
NoListing == [kind |-> "none"]

\* glob(str(Path(directory).joinpath("*"))): the entries of a directory, none
\* when the directory does not exist
Glob(directory) == { f \in dataFiles \cup DOMAIN logs : f.dir = directory }

\* lines 333-334: without verbose the entries that end in .log are dropped
Printed(files, verbose) ==
    IF verbose THEN files ELSE { f \in files : ~EndsWith(f.name, ".log") }

list_local_data(data_directory, verbose) ==
    LET named == IF data_directory = "None" THEN ConfigDataDirectory ELSE data_directory
        \* line 332 globs config["data_directory"], not the directory it was given
        files == Printed(Glob(ConfigDataDirectory), verbose)
    IN localRet' = [kind |-> "call", data_directory |-> data_directory, verbose |-> verbose,
                    named |-> named, printed |-> files, no_data |-> files = {},
                    raised |-> FALSE]

\* the state of a fresh process that loaded the configuration with the setting
\* skip, the config file being st, and data and logfiles being on disk
InitWith(skip, st, data, logfiles) ==
    /\ cache = <<>>
    /\ dfCache = <<>>
    /\ fetches = 0
    /\ nextObj = 1
    /\ ncalls = 0
    /\ ret = NoCall
    /\ prev = NoCall
    /\ recency = <<>>
    /\ issued = 0
    /\ server \in Catalogs
    /\ configSkip = skip
    /\ dataFiles = data
    /\ logs = [f \in logfiles |-> <<>>]
    /\ rootHandler = NoHandler
    /\ resolved = 0
    /\ requests = 0
    /\ clock = 0
    /\ pending = <<>>
    /\ dlArgs = NoArgs
    /\ dlSeq = 0
    /\ lastDl = NoDownload
    /\ dlRet = NoDownload
    /\ resCall = NoResolve
    /\ store = st
    /\ cfgRet = NoConfigCall
    /\ localRet = NoListing

\* the configuration as the package creates it
Init == InitWith("absent", Stored(Loaded("absent")), {}, {})

\* a session: any of the session's calls, in any order
SessionCall ==
    /\ ncalls < MaxCalls
    /\ \E q \in SessionQueries : list_layers(q)
    /\ UNCHANGED <<issued, dlVars, extVars>>

Next == SessionCall

Spec == Init /\ [][Next]_vars

\* one call with any combination of arguments
SingleCall ==
    /\ ncalls = 0
    /\ \E q \in Queries : list_layers(q)
    /\ UNCHANGED <<issued, dlVars, extVars>>

NextPipe == SingleCall

SpecPipe == Init /\ [][NextPipe]_vars

\* a paging client: a query it has not issued yet, taken in the order of LRUQueries
PageNew ==
    /\ ncalls < MaxLRUCalls
    /\ issued < Len(LRUQueries)
    /\ list_layers(LRUQueries[issued + 1])
    /\ issued' = issued + 1
    /\ UNCHANGED <<dlVars, extVars>>

\* ... or any query it has issued before
PageRepeat ==
    /\ ncalls < MaxLRUCalls
    /\ \E n \in 1..issued : list_layers(LRUQueries[n])
    /\ UNCHANGED <<issued, dlVars, extVars>>

NextLRU == PageNew \/ PageRepeat

SpecLRU == Init /\ [][NextLRU]_vars

\* the variables tuples handed to _list_layers: up to MaxTokens tokens, repeated
\* and overlapping ones included
VariableTuples ==
    LET tokens == {"si", "siconc", "SI", "po4", "ph", "phyc"}
    IN { Tuple(t) : t \in UNION { [1..n -> tokens] : n \in 0..MaxTokens } }

TupleKeys ==
    { Query(s, v, None, None, None, df, FALSE, m) :
        s \in {None, Tuple(<<"baseline">>)}, v \in {None} \cup VariableTuples,
        df \in BOOLEAN, m \in BOOLEAN }

\* one call of _list_layers with any of these keys
TupleCall ==
    /\ ncalls = 0
    /\ \E key \in TupleKeys : _list_layers(key)
    /\ UNCHANGED <<issued, dlVars, extVars>>

SpecTuple == Init /\ [][TupleCall]_vars

\* the configuration may carry the setting, written by the user before the start
InitDownload == \E skip \in ConfigSkips : InitWith(skip, Stored(Loaded(skip)), {}, {})

\* a call of download_layers with any arguments and any answer at its prompt
DownloadLayersCall ==
    /\ \E a \in DownloadArgs :
          \E answer \in (IF Prompts(a) THEN Answers ELSE {NoAnswer}) : download_layers(a, answer)
    /\ UNCHANGED <<listVars, extVars>>

\* the loop of download_layers calls the executor for its next id
DownloadLayerStep ==
    /\ pending # <<>>
    /\ \E answer \in (IF ExistingPrompts(Head(pending)) THEN Answers ELSE {NoAnswer}) :
          _download_layer(answer)
    /\ UNCHANGED <<listVars, extVars>>

\* a second passes
Tick ==
    /\ clock < MaxClock
    /\ clock' = clock + 1
    /\ UNCHANGED <<listVars, extVars, configSkip, dataFiles, logs, rootHandler, resolved, requests,
                   pending, dlArgs, dlSeq, lastDl, dlRet>>

NextDownload == DownloadLayersCall \/ DownloadLayerStep \/ Tick

SpecDownload == InitDownload /\ [][NextDownload]_vars

\* a URL is resolved for any session and any constraints of the caller
Resolve ==
    /\ \E session \in Sessions, constraints \in CallerConstraints :
          resCall' = _get_griddap_dataset_url(session, constraints)
    /\ UNCHANGED <<listVars, dlVars, cfgVars, localRet>>

NextResolve == Resolve

SpecResolve == Init /\ [][NextResolve]_vars

\* the config file holds what the process loaded, or it is not there: it was
\* removed, or config_file names a fresh path (the defaults are what was loaded)
InitConfig ==
    \/ \E skip \in ConfigSkips : InitWith(skip, Stored(Loaded(skip)), {}, {})
    \/ InitWith("absent", NoFile, {}, {})

\* the default_config a caller passes to create_config, with whether it is the
\* default of the parameter
DefaultConfigs ==
    {<<_default_config, TRUE>>, <<[k \in {"key"} |-> "new-value"], FALSE>>}

CreateConfig ==
    /\ \E d \in DefaultConfigs :
          \E answer \in (IF Exists(store) THEN ConfigAnswers ELSE {NoAnswer}) :
             create_config(d[1], d[2], answer)
    /\ UNCHANGED <<listVars, dlVars, resCall, localRet>>

GetConfigPath ==
    /\ get_config_path
    /\ UNCHANGED <<listVars, dlVars, resCall, localRet>>

PrintConfigValues ==
    /\ print_config_values
    /\ UNCHANGED <<listVars, dlVars, resCall, localRet>>

\* the settings a user updates
Updates ==
    {<<"data_directory", "elsewhere">>, <<"skip_confirmation", "True">>,
     <<"skip_confirmation", "False">>, <<"Custom_Key", "custom_value">>}

UpdateSetting ==
    /\ \E u \in Updates : update_setting(u[1], u[2])
    /\ UNCHANGED <<listVars, dlVars, resCall, localRet>>

\* downloads that leave the directory and the confirmation to the configuration
ConfiguredArgs ==
    { a \in DownloadArgs :
        /\ Len(a.ids) = 1 /\ a.output_directory = "None" /\ a.constraints /\ a.log
        /\ a.skip_confirmation \in {"None", "True"} }

ConfiguredDownload ==
    /\ \E a \in ConfiguredArgs :
          \E answer \in (IF Prompts(a) THEN Answers ELSE {NoAnswer}) : download_layers(a, answer)
    /\ UNCHANGED <<listVars, extVars>>

NextConfig ==
    \/ CreateConfig
    \/ GetConfigPath
    \/ PrintConfigValues
    \/ UpdateSetting
    \/ ConfiguredDownload
    \/ DownloadLayerStep

SpecConfig == InitConfig /\ [][NextConfig]_vars

\* the files earlier processes left in the configured data directory and in a
\* directory of the user's own
EarlierData ==
    {File("data", "po4_baseline_2000_2018_depthmean_2026-11-02-093000.nc"),
     File("data", "chl_baseline_2000_2018_depthsurf_2026-11-02-093100.nc"),
     File("out", "thetao_ssp119_2020_2100_depthmean_2026-11-02-101500.nc")}

EarlierLogs ==
    {File("data", "po4_baseline_2000_2018_depthmean_2026-11-02-093000.log"),
     File("out", "thetao_ssp119_2020_2100_depthmean_2026-11-02-101500.log")}

InitLocal ==
    \E data \in SUBSET EarlierData, logfiles \in SUBSET EarlierLogs :
        InitWith("absent", Stored(Loaded("absent")), data, logfiles)

ListLocalData ==
    /\ \E data_directory \in {"None", "data", "out", "empty"}, verbose \in BOOLEAN :
          list_local_data(data_directory, verbose)
    /\ UNCHANGED <<listVars, dlVars, resCall, cfgVars>>

NextLocal == ListLocalData

SpecLocal == InitLocal /\ [][NextLocal]_vars

\* a process that finds earlier downloads in the data directory and calls
\* download_layers with several ids
LoopArgs ==
    [ids : {<<"po4_baseline_2000_2018_depthmean", "Chl_baseline_2000_2018_depthsurf">>,
            <<"Chl_baseline_2000_2018_depthsurf", "po4_baseline_2000_2018_depthmean",
              "si_ssp119_2020_2100_depthmax">>},
     output_directory : {"None"},
     response : {"nc"},
     constraints : BOOLEAN,
     skip_confirmation : {"None", "True", "False"},
     log : {TRUE},
     timestamp : {TRUE}]

InitLoop ==
    \E skip \in ConfigSkips, data \in SUBSET { f \in EarlierData : f.dir = ConfigDataDirectory } :
        InitWith(skip, Stored(Loaded(skip)), data, {})

LoopCall ==
    /\ \E a \in LoopArgs :
          \E answer \in (IF Prompts(a) THEN Answers ELSE {NoAnswer}) : download_layers(a, answer)
    /\ UNCHANGED <<listVars, extVars>>

NextLoop == LoopCall \/ DownloadLayerStep

\* the for loop of download_layers is sequential: once the prompt of the current
\* id is answered, the call for that id is made
SpecLoop == InitLoop /\ [][NextLoop]_vars /\ WF_vars(DownloadLayerStep)

(***************************************************************************)
(* Properties of list_layers.                                              *)
(***************************************************************************)
MultiValued == {"search", "variables", "ssp", "depth"}
Validated == {"variables", "ssp", "time_period", "depth"}

IsCall(r) == r.status # "none"
IsContainer(v) == v.kind \in {"list", "tuple", "set"}

\* two calls whose multi-value arguments hold the same elements, all else equal
SameElementSets(a, b) ==
    /\ \A f \in MultiValued :
          /\ (a[f].kind = "none") = (b[f].kind = "none")
          /\ Elements(a[f]) = Elements(b[f])
    /\ a.time_period = b.time_period
    /\ a.dataframe = b.dataframe
    /\ a.simplify = b.simplify
    /\ a._include_allDatasets = b._include_allDatasets

RowCount(val) == IF val.kind = "list" THEN Len(val.ids) ELSE Len(val.rows)
ValueIDs(val) ==
    IF val.kind = "list" THEN val.ids
    ELSE [i \in 1..Len(val.rows) |-> val.rows[i].cells["datasetID"]]

\* every element of the validated arguments belongs to its vocabulary
AllValid(a) == \A f \in Validated : \A x \in Elements(a[f]) : Lower(x) \in _valid_args(f)

\* C1: two consecutive calls whose variables, ssp or depth are containers (list,
\* tuple or set, in any order) holding the same valid elements both return, and
\* return the identical object.
C1_SameCachedObject ==
    ( /\ IsCall(prev) /\ IsCall(ret)
      /\ SameElementSets(prev.args, ret.args)
      /\ AllValid(prev.args)
      /\ \E f \in {"variables", "ssp", "depth"} :
            IsContainer(prev.args[f]) /\ IsContainer(ret.args[f]) )
    => ( /\ prev.status = "returned"
         /\ ret.status = "returned"
         /\ ret.obj = prev.obj )

\* C2: a call whose key the memo holds returns the very object stored for that key
\* and allocates and fetches nothing; a call whose key is not held runs the filter
\* pipeline, returns its fresh result, and the memo holds the key with that object
\* when the call returns.
C2_HitOrMiss ==
    [][ (ncalls' = ncalls + 1 /\ ret'.status = "returned") =>
          IF \E i \in 1..Len(cache) : cache[i].key = ret'.key
          THEN /\ \E i \in 1..Len(cache) :
                     cache[i].key = ret'.key /\ cache[i].obj = ret'.obj /\ cache[i].val = ret'.val
               /\ nextObj' = nextObj
               /\ fetches' = fetches
          ELSE /\ nextObj' = nextObj + 1
               /\ ret'.val = Pipeline(ret'.key, server).val
               /\ \A j \in 1..Len(cache) : cache[j].obj # ret'.obj
               /\ \E i \in 1..Len(cache') :
                     cache'[i].key = ret'.key /\ cache'[i].obj = ret'.obj
      ]_vars

\* a hit that follows the miss which stored the object
C2_Witness ==
    /\ IsCall(prev) /\ prev.status = "returned" /\ ~prev.hit
    /\ ret.status = "returned" /\ ret.hit /\ ret.obj = prev.obj

\* C3: the memo never holds more than 8 keys, all distinct, and they are exactly the
\* most recently used keys in order of use: a ninth key evicts the least recently
\* used one, hits counting as uses.
C3_LeastRecentlyUsed ==
    LET n == Len(recency)
        m == IF n < ListLayersMaxsize THEN n ELSE ListLayersMaxsize
    IN /\ Len(cache) <= ListLayersMaxsize
       /\ \A i, j \in 1..Len(cache) : cache[i].key = cache[j].key => i = j
       /\ [i \in 1..Len(cache) |-> cache[i].key] = SubSeq(recency, n - m + 1, n)

\* nine keys used, and the one evicted is not the one inserted first
C3_Witness ==
    /\ Len(recency) = ListLayersMaxsize + 1
    /\ Len(cache) = ListLayersMaxsize
    /\ recency[1] # Key(LRUQueries[1])
    /\ \E i \in 1..Len(cache) : cache[i].key = Key(LRUQueries[1])

\* C4: a value outside the vocabulary, given as a str or inside an iterable, is
\* reported (field, value, allowed set), the call does not raise, and the value is
\* still part of the filter the pipeline receives.
C4_InvalidReportedNotRejected ==
    IsCall(ret) =>
      \A f \in Validated : \A x \in Elements(ret.args[f]) :
          Lower(x) \notin _valid_args(f) =>
              /\ Diag(f, x) \in Range(ret.diags)
              /\ ret.status = "returned"
              /\ x \in Range(ret.key[f].elems)

C6_PresentFutureDisjoint ==
    ( /\ IsCall(ret)
      /\ ret.args.time_period \in {Str("present"), Str("future")}
      /\ \A f \in MultiValued : ret.args[f] = None )
    => LET opposite == IF ret.args.time_period = Str("present")
                       THEN Tuple(<<"future">>) ELSE Tuple(<<"present">>)
           o == Pipeline([Key(ret.args) EXCEPT !.time_period = opposite], server)
           all == Pipeline([Key(ret.args) EXCEPT !.time_period = None], server)
           ids == Range(ValueIDs(ret.val))
       IN /\ ret.status = "returned"
          /\ ~o.raised /\ ~all.raised
          /\ ids \cap Range(ValueIDs(o.val)) = {}
          /\ ids \subseteq Range(ValueIDs(all.val))

\* list_layers(time_period="present"): some rows, fewer than the catalog, and
\* "future" has rows too
C6_Witness ==
    /\ IsCall(ret) /\ ret.status = "returned"
    /\ ret.key.time_period = Tuple(<<"present">>)
    /\ \A f \in MultiValued : ret.args[f] = None
    /\ RowCount(ret.val) > 0
    /\ RowCount(ret.val) < RowCount(Pipeline([ret.key EXCEPT !.time_period = None], server).val)
    /\ RowCount(Pipeline([ret.key EXCEPT !.time_period = Tuple(<<"future">>)], server).val) > 0

\* C7: for every combination of filter arguments the call with dataframe=False
\* returns a list equal, element for element, to the datasetID column of the call
\* with dataframe=True and the same filters.
C7_ListEqualsIDColumn ==
    (IsCall(ret) /\ ~ret.args.dataframe) =>
        LET table == Pipeline([Key(ret.args) EXCEPT !.dataframe = TRUE], server)
        IN /\ ret.status = "returned"
           /\ ret.val.kind = "list"
           /\ ~table.raised
           /\ ret.val.ids = ValueIDs(table.val)

\* C8: for valid variables tokens, when the catalog holds a dataset that starts with
\* none of them, the call returns fewer rows than the unfiltered call.
C8_VariablesFewerRows ==
    ( /\ IsCall(ret)
      /\ ret.args.variables # None
      /\ \A f \in {"search", "ssp", "time_period", "depth"} : ret.args[f] = None
      /\ \A x \in Elements(ret.args.variables) : Lower(x) \in _Variable
      /\ LET rows == _layer_dataframe(ret.args._include_allDatasets, server).rows
         IN \E i \in 1..Len(rows) :
               \A x \in Elements(ret.args.variables) : ~VariableMatch(rows[i], x) )
    => /\ ret.status = "returned"
       /\ RowCount(ret.val) <
            RowCount(Pipeline([Key(ret.args) EXCEPT !.variables = None], server).val)

(***************************************************************************)
(* Properties of the downloads.                                            *)
(***************************************************************************)
\* the lines the download numbered n wrote into file f
LinesOf(n, f) == { i \in 1..Len(logs[f]) : logs[f][i].by = n }

\* an answer at a prompt that is not a yes
Declined(answer) == answer # NoAnswer /\ Lower(answer) \notin {"y", "yes"}

\* what a download leaves behind
Effects == <<dataFiles, logs, rootHandler, resolved, requests>>

\* C9: a download made with skip_confirmation=true has its data file and, beside
\* it, its log file (same directory and stem, suffix .log), and its log lines are
\* in that file and in no other.
C9_OwnLogFile ==
    (lastDl.outcome = "done" /\ lastDl.skip /\ lastDl.log) =>
        /\ lastDl.local_path \in dataFiles
        /\ lastDl.logfile \in DOMAIN logs
        /\ LinesOf(lastDl.n, lastDl.logfile) # {}
        /\ \A f \in DOMAIN logs : LinesOf(lastDl.n, f) # {} => f = lastDl.logfile

\* C10: a step in which the caller answers a prompt with anything but a yes, at the
\* no-constraints prompt of download_layers or at the existing-files prompt of
\* _download_layer, returns without raising and resolves no URL, makes no request,
\* creates and modifies no data file and no log file.
C10_DeclineNoSideEffects ==
    [][ /\ (pending = <<>> /\ dlRet' # dlRet /\ Declined(dlRet'.answer)) =>
             /\ dlRet'.outcome = "declined"
             /\ pending' = <<>>
             /\ UNCHANGED Effects
        /\ (pending # <<>> /\ Declined(lastDl'.answer)) =>
             /\ lastDl'.outcome = "declined"
             /\ UNCHANGED Effects
      ]_vars

\* both prompts have been declined: the existing-files prompt by the last call of
\* _download_layer, the no-constraints prompt by the last call of download_layers
C10_Witness ==
    /\ lastDl.outcome = "declined" /\ Declined(lastDl.answer)
    /\ dlRet.outcome = "declined" /\ Declined(dlRet.answer)
    /\ dataFiles # {}

\* C11: a finished download has written the file {dataset_id}_{timestamp}.{response}
\* when the argument timestamp is True and {dataset_id}.{response} when it is False,
\* in output_directory when given and in the configured data directory otherwise.
C11_FilenamePattern ==
    lastDl.outcome = "done" =>
        /\ lastDl.local_path \in dataFiles
        /\ lastDl.local_path.name =
             (IF lastDl.timestamp
              THEN lastDl.dataset_id \o "_" \o Timestamp(lastDl.at) \o "." \o lastDl.response
              ELSE lastDl.dataset_id \o "." \o lastDl.response)
        /\ lastDl.local_path.dir =
             (IF lastDl.output_directory = "None" THEN ConfigDataDirectory
              ELSE lastDl.output_directory)

\* C12: when the caller passes constraints, each key of the session that the caller
\* supplies ends with the caller's value, each other key of the session keeps its
\* default, the key set of the session is unchanged (caller keys the session does
\* not have are ignored), and no error is raised.
C12_ConstraintsMerged ==
    (resCall.kind = "call" /\ resCall.given.kind = "dict") =>
        LET given == resCall.given.items
        IN /\ ~resCall.raised
           /\ DOMAIN resCall.constraints = DOMAIN resCall.session
           /\ \A k \in DOMAIN resCall.session :
                 resCall.constraints[k] =
                    (IF k \in DOMAIN given THEN given[k] ELSE resCall.session[k])

\* constraints with a key the session has, leaving a key of the session to its
\* default, and with a key the session does not have
C12_Witness ==
    /\ resCall.kind = "call" /\ resCall.given.kind = "dict"
    /\ \E k \in DOMAIN resCall.session :
          k \in DOMAIN resCall.given.items /\ resCall.constraints[k] # resCall.session[k]
    /\ \E k \in DOMAIN resCall.session : k \notin DOMAIN resCall.given.items
    /\ \E k \in DOMAIN resCall.given.items : k \notin DOMAIN resCall.session

(***************************************************************************)
(* Properties of the configuration.                                        *)
(***************************************************************************)
\* the setting key of the config file: ConfigParser finds it in any case
HasSetting(st, key) == Exists(st) /\ Lower(key) \in DOMAIN st.items
Setting(st, key) == st.items[Lower(key)]

DocumentedSettings == {"data_directory", "erddap_server", "skip_confirmation"}

\* C13: after create_config() with no arguments, called when no config file
\* existed, the file exists and holds data_directory, erddap_server and
\* skip_confirmation, each with the value the module's defaults give it.
C13_CreatesDefaults ==
    ( /\ cfgRet.op = "create_config" /\ cfgRet.defaulted
      /\ ~Exists(cfgRet.before) )
    => /\ Exists(store)
       /\ \A k \in DocumentedSettings :
             /\ k \in DOMAIN _default_config
             /\ HasSetting(store, k)
             /\ Setting(store, k) = _default_config[k]

\* C14: create_config called when the config file exists and answered with
\* anything but y or yes (in any case) is cancelled and leaves the file as it was.
C14_OverwriteOnlyOnYes ==
    ( /\ cfgRet.op = "create_config"
      /\ Exists(cfgRet.before)
      /\ Lower(cfgRet.answer) \notin {"y", "yes"} )
    => /\ cfgRet.outcome = "cancelled"
       /\ store = cfgRet.before

\* C15: get_config_path returns the path of the config file, whether the file
\* existed or had to be created, and the file exists when it returns.
C15_ReturnsPath ==
    cfgRet.op = "get_config_path" =>
        /\ cfgRet.value = config_file
        /\ Exists(store)

\* C16: after update_setting(key, value) the config file holds key = value, and
\* every other setting the file held before the call is there with the value it had.
C16_UpdateKeepsOthers ==
    cfgRet.op = "update_setting" =>
        /\ HasSetting(store, cfgRet.key)
        /\ Setting(store, cfgRet.key) = cfgRet.value
        /\ Exists(cfgRet.before) =>
              \A k \in DOMAIN cfgRet.before.items \ {Lower(cfgRet.key)} :
                  HasSetting(store, k) /\ Setting(store, k) = Setting(cfgRet.before, k)

\* an update that changed one setting of a file that held others, one of them
\* set by an earlier update
C16_Witness ==
    /\ cfgRet.op = "update_setting"
    /\ Exists(cfgRet.before)
    /\ HasSetting(cfgRet.before, cfgRet.key)
    /\ Setting(cfgRet.before, cfgRet.key) # cfgRet.value
    /\ \E k \in DOMAIN cfgRet.before.items \ {Lower(cfgRet.key)} :
          k \notin DOMAIN _default_config \/ Setting(store, k) # _default_config[k]

\* C17: a download that leaves the directory and the confirmation to the
\* configuration uses the data_directory and the skip_confirmation the config file
\* holds when the download is made.
C17_ReadAtCallTime ==
    [][ ( /\ dlSeq' = dlSeq + 1
          /\ dlArgs.output_directory = "None"
          /\ dlArgs.skip_confirmation = "None"
          /\ HasSetting(store, "data_directory")
          /\ HasSetting(store, "skip_confirmation") )
        => /\ lastDl'.outcome = "done" =>
                 lastDl'.local_path.dir = Setting(store, "data_directory")
           /\ lastDl'.skip = (Setting(store, "skip_confirmation") = "True")
      ]_vars

(***************************************************************************)
(* Properties of list_local_data.                                          *)
(***************************************************************************)
\* C18: list_local_data prints the entries of the directory it is given, and of the
\* configured data directory when it is given none, without the entries that end in
\* .log when not verbose; an empty directory is reported as holding no data, and
\* the call does not raise.
C18_ListsGivenDirectory ==
    localRet.kind = "call" =>
        LET target == IF localRet.data_directory = "None" THEN ConfigDataDirectory
                      ELSE localRet.data_directory
            entries == { f \in dataFiles \cup DOMAIN logs : f.dir = target }
            shown == IF localRet.verbose THEN entries
                     ELSE { f \in entries : ~EndsWith(f.name, ".log") }
        IN /\ ~localRet.raised
           /\ localRet.printed = shown
           /\ localRet.no_data = (shown = {})

(***************************************************************************)
(* Properties of the catalog fetcher and of the row order.                 *)
(***************************************************************************)
\* C19: over any sequence of list_layers calls, evictions and recomputations of
\* the filter memo included, the catalog has been fetched exactly once for each
\* value of _include_allDatasets a call has used, both values stay in the memo of
\* _layer_dataframe, and an unfiltered result has the rows of the catalog, without
\* the first one unless _include_allDatasets is true.
C19_CatalogFetchedOncePerFlag ==
    /\ Len(dfCache) <= LayerDataframeMaxsize
    /\ \A i, j \in 1..Len(dfCache) : dfCache[i] = dfCache[j] => i = j
    /\ fetches = Len(dfCache)
    /\ \A k \in Range(recency) : k._include_allDatasets \in Range(dfCache)
    /\ ( /\ IsCall(ret) /\ ret.status = "returned"
         /\ \A f \in MultiValued \cup {"time_period"} : ret.args[f] = None )
       => LET frame == IF ret.args._include_allDatasets THEN server.rows
                       ELSE Tail(server.rows)
          IN ValueIDs(ret.val) = [i \in 1..Len(frame) |-> frame[i].cells["datasetID"]]

\* both variants fetched, and the first query recomputed after its eviction from
\* the filter memo without a new fetch
C19_Witness ==
    /\ fetches = 2 /\ Len(dfCache) = 2
    /\ IsCall(prev)
    /\ ret.status = "returned" /\ ~ret.hit
    /\ ret.key = Key(LRUQueries[1])
    /\ Len(recency) > ListLayersMaxsize

\* the rows of the frame that the token of field f matches, in catalog order
MatchedBy(frame, f, token) ==
    SelectSeq(frame, LAMBDA r :
        IF f = "variables" THEN VariableMatch(r, token)
        ELSE IF f = "ssp" THEN SspMatch(r, token)
        ELSE DepthMatch(r, token))

\* C20: a call that gives variables (or ssp, or depth) as tokens t1..tn, n >= 2, and
\* no other filter returns the rows matched by t1, then those matched by t2, and so
\* on, in catalog order within each token.
C20_ConcatenationOrder ==
    \A f \in {"variables", "ssp", "depth"} :
        ( /\ IsCall(ret)
          /\ ret.args[f].kind \in {"list", "tuple"}
          /\ Len(ret.args[f].elems) >= 2
          /\ \A g \in (MultiValued \cup {"time_period"}) \ {f} : ret.args[g] = None )
        => LET frame == _layer_dataframe(ret.args._include_allDatasets, server).rows
               tokens == ret.args[f].elems
               rows == Flatten([i \in 1..Len(tokens) |-> MatchedBy(frame, f, tokens[i])])
           IN /\ ret.status = "returned"
              /\ ValueIDs(ret.val) = [i \in 1..Len(rows) |-> ID(rows[i])]

(***************************************************************************)
(* Properties of the time-period step within the pipeline.                 *)
(***************************************************************************)
\* the step filters: time_period is ("present",) or ("future",)
Fires(time_period) == time_period \in {Tuple(<<"present">>), Tuple(<<"future">>)}

\* the ids that one ssp token and one depth token, where given, keep
KeptBy(ids, ssp, depth) ==
    LET row(id) == [cells |-> [c \in {"datasetID"} |-> id]]
    IN SelectSeq(ids, LAMBDA id :
          /\ Truthy(ssp) => SspMatch(row(id), ssp.elems[1])
          /\ Truthy(depth) => DepthMatch(row(id), depth.elems[1]))

RECURSIVE Count(_, _)
Count(seq, x) ==
    IF seq = <<>> THEN 0
    ELSE (IF Head(seq) = x THEN 1 ELSE 0) + Count(Tail(seq), x)

\* the positions of the tokens that are, lower-cased, a prefix of id
PrefixTokens(tokens, id) == { i \in 1..Len(tokens) : StartsWith(id, Lower(tokens[i])) }

\* C22: the variables step keeps exactly the rows whose datasetID starts with one
\* of the lower-cased tokens, once for each requested token that is a prefix of
\* it (no deduplication), and no row that no token matches; it adds no row.
C22_OncePerMatchingToken ==
    ( /\ IsCall(ret) /\ ret.status = "returned"
      /\ Truthy(ret.key.variables)
      /\ \A f \in {"ssp", "time_period", "depth"} : ret.key[f] = None )
    => LET before == ValueIDs(Pipeline([ret.key EXCEPT !.variables = None], server).val)
           after == ValueIDs(ret.val)
       IN /\ \A i \in 1..Len(before) :
                Count(after, before[i]) =
                    Cardinality(PrefixTokens(ret.key.variables.elems, before[i]))
          /\ Range(after) \subseteq Range(before)

\* variables ("si", "siconc"): the siconc row is kept twice, the si row once, the
\* po4 rows not at all
C22_Witness ==
    /\ IsCall(ret) /\ ret.status = "returned"
    /\ ret.key.variables = Tuple(<<"si", "siconc">>)
    /\ ret.key.search = None
    /\ Count(ValueIDs(ret.val), "siconc_baseline_2000_2020_depthsurf") = 2
    /\ Count(ValueIDs(ret.val), "si_ssp119_2020_2100_depthmax") = 1
    /\ Count(ValueIDs(ret.val), "po4_baseline_2000_2018_depthmean") = 0

(***************************************************************************)
(* Properties of the loop of download_layers.                              *)
(***************************************************************************)
\* a call of download_layers is in its loop and confirmation is not skipped
LoopWithPrompts == pending # <<>> /\ ~SkipConfirmation(dlArgs.skip_confirmation)

\* C23: download_layers called with several ids and confirmation not skipped
\* handles the ids one after another in the given order, each at most once: every
\* step of the loop calls _download_layer for the first id still pending and
\* removes it.  A declined existing-files prompt cancels that id's download only
\* (nothing on disk changes, no request is made), and the ids still pending are
\* attempted afterwards: the loop goes on until none is pending and the call returns.
C23_DeclineSkipsOneId ==
    /\ [][ /\ (pending = <<>> /\ pending' # <<>>) =>
                pending' = [i \in 1..Len(dlArgs'.ids) |-> Lower(dlArgs'.ids[i])]
           /\ LoopWithPrompts =>
                /\ lastDl'.dataset_id = Head(pending)
                /\ lastDl'.n = dlSeq + 1
                /\ dlSeq' = dlSeq + 1
                /\ pending' = Tail(pending)
                /\ lastDl'.outcome \in {"declined", "done"}
                /\ lastDl'.outcome = "declined" <=> Declined(lastDl'.answer)
                /\ lastDl'.outcome = "declined" => UNCHANGED Effects
                /\ lastDl'.outcome = "done" => lastDl'.local_path \in dataFiles'
         ]_vars
    /\ LoopWithPrompts ~> (pending = <<>> /\ dlRet.outcome = "returned")

\* a call with two ids has returned: the prompt of the first id was declined and
\* left no file, the second id was downloaded
C23_Witness ==
    /\ dlRet.outcome = "returned" /\ dlSeq = 2
    /\ lastDl.outcome = "done" /\ lastDl.n = 2 /\ ~lastDl.skip
    /\ lastDl.dataset_id = "chl_baseline_2000_2018_depthsurf"
    /\ lastDl.local_path \in dataFiles
    /\ Cardinality(dataFiles \ EarlierData) = 1

====
